---------------------------- MODULE Spec2Model ----------------------------
(***************************************************************************)
(* Model of the two client-side scripts of pwa-sales-app:                  *)
(*   static/js/service-worker.js  the offline cache worker                 *)
(*   static/js/main.js            the navigation transition handler        *)
(* The two scripts share no state; each has its own specification          *)
(* (SpecSW, SpecPage).                                                     *)
(***************************************************************************)
EXTENDS Integers, Sequences, FiniteSets, TLC

(***************************************************************************)
(* Bounds of the model.                                                    *)
(***************************************************************************)
\* most URLs of one bulk add whose fetch does not end in an ok response
MaxBad == 1
\* most worker instances registered over a run (re-registration)
MaxGen == 2
\* most clicks dispatched to one document
MaxClicks == 2
\* ms the clock advances in one step
TickStep == 90

(***************************************************************************)
(* service-worker.js: constants.                                           *)
(***************************************************************************)
CACHE_NAME == "pwa-sales-app-v1"

URLS_TO_CACHE ==
    << "/", "/input", "/report", "/settings", "/performance",
       "/static/css/style.css", "/static/js/main.js",
       "/static/js/service-worker.js",
       "/static/image/icon-192.png", "/static/image/icon-512.png" >>

Range(s) == {s[i] : i \in 1..Len(s)}

UrlSet == Range(URLS_TO_CACHE)

\* caches left behind by earlier deployments, with what they hold
StaleNames == {"old-cache", "pwa-sales-app-v0"}

StaleEntries(name) ==
    IF name = "old-cache"
    THEN {[url |-> "/", gen |-> 0], [url |-> "/old-page", gen |-> 0]}
    ELSE {[url |-> "/input", gen |-> 0]}

AllCacheNames == StaleNames \cup {CACHE_NAME}

\* what a network fetch can end in: an ok response, a response with an
\* error status (the fetch promise still resolves), or a network error
\* (the fetch promise rejects)
NetResults == {"ok", "http_error", "net_error"}

\* requests the pages send through the worker
ReqMethods == {"GET", "POST", "HEAD"}
ReqUrls == {"/", "/input", "/static/js/main.js", "/old-page", "/api/sales"}

NoResponse == [kind |-> "none", url |-> "", gen |-> 0, cache |-> ""]
IdleFetch ==
    [pc |-> "idle", method |-> "", url |-> "", respondWith |-> FALSE,
     lookups |-> 0, netCalls |-> 0, net |-> "", response |-> NoResponse]

VARIABLES
    swState,         \* lifecycle state of the current worker instance
    swGen,           \* number of the current worker instance
    cacheOrder,      \* CacheStorage: names of the caches, in creation order
    cacheData,       \* CacheStorage: entries of each cache ({} when absent)
    installPc,       \* install handler: "idle", "open", "addAll", "settled"
    installNet,      \* result of each fetch of the bulk add (<<>> before it)
    installResult,   \* promise given to install's waitUntil: none/ok/failed
    activatePc,      \* activate handler: "idle", "keys", "deleting", "settled"
    activateKeys,    \* the names caches.keys() resolved with
    activatePending, \* caches.delete calls not settled yet
    activateCalled,  \* names caches.delete was called with
    activateResult,  \* promise given to activate's waitUntil: none/ok/failed
    fe,              \* the fetch event being handled
    \* ---- main.js ----
    pagePc,          \* "loading", "ready" (DOMContentLoaded handled), "gone"
    hasShell,        \* the document has an element of class app-shell
    listening,       \* the body click listener is registered
    shellClasses,    \* class list of the shell element
    event,           \* the click event last dispatched to the body
    timers,          \* pending setTimeout callbacks, oldest first
    location,        \* URL last given to the browser to navigate to
    navBy            \* who gave it: "load", "timer" or "default"

swVars == << swState, swGen, cacheOrder, cacheData, installPc, installNet,
             installResult, activatePc, activateKeys, activatePending,
             activateCalled, activateResult, fe >>
pageVars == << pagePc, hasShell, listening, shellClasses, event, timers,
               location, navBy >>
vars == << swVars, pageVars >>

(***************************************************************************)
(* Cache Storage, as the worker uses it.                                   *)
(***************************************************************************)
Keys(entries) == {e.url : e \in entries}

\* cache.put of a batch: an entry replaces the one with the same URL
PutAll(entries, batch) ==
    {e \in entries : e.url \notin Keys(batch)} \cup batch

\* caches.open(name): the cache is created when absent
OpenOrder(order, name) ==
    IF name \in Range(order) THEN order ELSE Append(order, name)

RemoveName(order, name) == SelectSeq(order, LAMBDA n : n # name)

\* the bulk add sees these fetch results: every set of results with at most
\* MaxBad URLs not ok
BulkResults ==
    UNION { { [u \in UrlSet |-> IF u \in S THEN b[u] ELSE "ok"] :
                b \in [S -> NetResults \ {"ok"}] } :
            S \in {T \in SUBSET UrlSet : Cardinality(T) <= MaxBad} }

\* cache.addAll(urls) is atomic: it rejects, writing nothing, unless every
\* fetch ends in an ok response
AddAllOk(net) == \A u \in UrlSet : net[u] = "ok"

AddAllPartial(entries, net, gen) ==
    PutAll(entries, {[url |-> u, gen |-> gen] : u \in {v \in UrlSet : net[v] = "ok"}})

AddAll(entries, net, gen) ==
    IF AddAllOk(net)
    THEN PutAll(entries, {[url |-> u, gen |-> gen] : u \in UrlSet})
    ELSE entries

\* caches.match(request): the first cache, in creation order, that holds an
\* entry for the request answers
MatchIdx(order, data, url) ==
    {i \in 1..Len(order) : url \in Keys(data[order[i]])}

Min(S) == CHOOSE x \in S : \A y \in S : x <= y

Match(order, data, url) ==
    IF MatchIdx(order, data, url) = {}
    THEN NoResponse
    ELSE LET name == order[Min(MatchIdx(order, data, url))]
             e == CHOOSE x \in data[name] : x.url = url
         IN [kind |-> "cached", url |-> url, gen |-> e.gen, cache |-> name]

(***************************************************************************)
(* Worker lifecycle, driven by the host runtime.                           *)
(***************************************************************************)
\* event.waitUntil(p): the event ends as p ends
WaitUntilDropped(p) == "ok"

WaitUntil(p) == p

\* the script is registered again (after a failed install, or later)
Register ==
    /\ swState \in {"redundant", "activated"}
    /\ swGen < MaxGen
    /\ activatePending = {}
    /\ fe.pc = "idle"
    /\ swGen' = swGen + 1
    /\ swState' = "parsed"
    /\ installPc' = "idle"
    /\ installNet' = << >>
    /\ installResult' = "none"
    /\ activatePc' = "idle"
    /\ activateKeys' = << >>
    /\ activateCalled' = {}
    /\ activateResult' = "none"
    /\ UNCHANGED << cacheOrder, cacheData, activatePending, fe, pageVars >>

\* install listener, called
InstallDispatch ==
    /\ swState = "parsed"
    /\ swState' = "installing"
    /\ installPc' = "open"
    /\ UNCHANGED << swGen, cacheOrder, cacheData, installNet, installResult,
                    activatePc, activateKeys, activatePending, activateCalled,
                    activateResult, fe, pageVars >>

\* caches.open(CACHE_NAME)
InstallOpen ==
    /\ installPc = "open"
    /\ cacheOrder' = OpenOrder(cacheOrder, CACHE_NAME)
    /\ installPc' = "addAll"
    /\ UNCHANGED << swState, swGen, cacheData, installNet, installResult,
                    activatePc, activateKeys, activatePending, activateCalled,
                    activateResult, fe, pageVars >>

\* .then(cache => cache.addAll(URLS_TO_CACHE))
InstallAddAll ==
    /\ installPc = "addAll"
    /\ \E net \in BulkResults :
         /\ installNet' = net
         /\ cacheData' = [cacheData EXCEPT
                            ![CACHE_NAME] = AddAll(@, net, swGen)]
         /\ installResult' = IF AddAllOk(net) THEN "ok" ELSE "failed"
    /\ installPc' = "settled"
    /\ UNCHANGED << swState, swGen, cacheOrder, activatePc, activateKeys,
                    activatePending, activateCalled, activateResult, fe,
                    pageVars >>

\* the install event ends: the worker is installed, or discarded
InstallSettle ==
    /\ swState = "installing"
    /\ installPc = "settled"
    /\ swState' = IF WaitUntil(installResult) = "ok"
                  THEN "installed" ELSE "redundant"
    /\ UNCHANGED << swGen, cacheOrder, cacheData, installPc, installNet,
                    installResult, activatePc, activateKeys, activatePending,
                    activateCalled, activateResult, fe, pageVars >>

\* activate listener, called (only on a worker whose install ended well)
ActivateDispatch ==
    /\ swState = "installed"
    /\ swState' = "activating"
    /\ activatePc' = "keys"
    /\ UNCHANGED << swGen, cacheOrder, cacheData, installPc, installNet,
                    installResult, activateKeys, activatePending,
                    activateCalled, activateResult, fe, pageVars >>

\* keys.filter(key => key !== CACHE_NAME)
StaleKeysNone(keys) == keys

StaleKeys(keys) == SelectSeq(keys, LAMBDA key : key # CACHE_NAME)

\* caches.keys().then(keys => Promise.all(keys.filter(..).map(delete)))
\* every caches.delete is called at once; Promise.all([]) is fulfilled
ActivateKeys ==
    /\ activatePc = "keys"
    /\ activateKeys' = cacheOrder
    /\ activatePending' = Range(StaleKeys(cacheOrder))
    /\ activateCalled' = Range(StaleKeys(cacheOrder))
    /\ activateResult' = IF StaleKeys(cacheOrder) = << >> THEN "ok" ELSE "none"
    /\ activatePc' = "deleting"
    /\ UNCHANGED << swState, swGen, cacheOrder, cacheData, installPc,
                    installNet, installResult, fe, pageVars >>

\* one caches.delete(key) settles; Promise.all is rejected by the first
\* rejection and fulfilled once every deletion is
ActivateDelete ==
    \E key \in activatePending, done \in BOOLEAN :
      /\ activatePending' = activatePending \ {key}
      /\ IF done
         THEN /\ cacheOrder' = RemoveName(cacheOrder, key)
              /\ cacheData' = [cacheData EXCEPT ![key] = {}]
         ELSE UNCHANGED << cacheOrder, cacheData >>
      /\ activateResult' =
           IF activateResult # "none" THEN activateResult
           ELSE IF ~done THEN "failed"
           ELSE IF activatePending = {key} THEN "ok"
           ELSE "none"
      /\ UNCHANGED << swState, swGen, installPc, installNet, installResult,
                      activatePc, activateKeys, activateCalled, fe, pageVars >>

\* the activate event ends: the worker is activated whether or not the
\* promise given to waitUntil was fulfilled
ActivateSettle ==
    /\ swState = "activating"
    /\ WaitUntil(activateResult) # "none"
    /\ swState' = "activated"
    /\ activatePc' = "settled"
    /\ UNCHANGED << swGen, cacheOrder, cacheData, installPc, installNet,
                    installResult, activateKeys, activatePending,
                    activateCalled, activateResult, fe, pageVars >>

\* if (event.request.method !== 'GET') return;
InterceptsAll(method) == TRUE

Intercepts(method) == method = "GET"

\* fetch listener, called (only on an activated worker)
FetchDispatch ==
    /\ swState = "activated"
    /\ fe.pc = "idle"
    /\ \E method \in ReqMethods, url \in ReqUrls :
         fe' = IF Intercepts(method)
               THEN [IdleFetch EXCEPT !.pc = "match", !.method = method,
                                      !.url = url, !.respondWith = TRUE]
               ELSE [IdleFetch EXCEPT !.pc = "done", !.method = method,
                                      !.url = url]
    /\ UNCHANGED << swState, swGen, cacheOrder, cacheData, installPc,
                    installNet, installResult, activatePc, activateKeys,
                    activatePending, activateCalled, activateResult,
                    pageVars >>

\* caches.match(event.request).then(cached => cached || ...)
FetchMatch ==
    /\ fe.pc = "match"
    /\ LET cached == Match(cacheOrder, cacheData, fe.url)
       IN fe' = IF cached # NoResponse
                THEN [fe EXCEPT !.pc = "done", !.lookups = @ + 1,
                                !.response = cached]
                ELSE [fe EXCEPT !.pc = "network", !.lookups = @ + 1]
    /\ UNCHANGED << swState, swGen, cacheOrder, cacheData, installPc,
                    installNet, installResult, activatePc, activateKeys,
                    activatePending, activateCalled, activateResult,
                    pageVars >>

\* what respondWith gets from fetch(event.request)
NetworkResponseFallback(url, net) ==
    IF net = "net_error"
    THEN [kind |-> "cached", url |-> "/", gen |-> 0, cache |-> CACHE_NAME]
    ELSE [kind |-> "network", url |-> url, gen |-> 0, cache |-> ""]

NetworkResponse(url, net) ==
    IF net = "net_error"
    THEN [kind |-> "error", url |-> url, gen |-> 0, cache |-> ""]
    ELSE [kind |-> "network", url |-> url, gen |-> 0, cache |-> ""]

\* what the miss leaves in the caches: the response is not stored
MissStorePut(data, order, response) ==
    IF response.kind = "network" /\ CACHE_NAME \in Range(order)
    THEN [data EXCEPT ![CACHE_NAME] =
            PutAll(@, {[url |-> response.url, gen |-> 0]})]
    ELSE data

MissStore(data, order, response) == data

\* ... || fetch(event.request)
FetchNetwork ==
    /\ fe.pc = "network"
    /\ \E net \in NetResults :
         /\ fe' = [fe EXCEPT !.pc = "done", !.netCalls = @ + 1, !.net = net,
                             !.response = NetworkResponse(fe.url, net)]
         /\ cacheData' = MissStore(cacheData, cacheOrder,
                                   NetworkResponse(fe.url, net))
    /\ UNCHANGED << swState, swGen, cacheOrder, installPc, installNet,
                    installResult, activatePc, activateKeys, activatePending,
                    activateCalled, activateResult, pageVars >>

\* the fetch event is over
FetchComplete ==
    /\ fe.pc = "done"
    /\ fe' = IdleFetch
    /\ UNCHANGED << swState, swGen, cacheOrder, cacheData, installPc,
                    installNet, installResult, activatePc, activateKeys,
                    activatePending, activateCalled, activateResult,
                    pageVars >>

(***************************************************************************)
(* main.js: the document and its click events.  A string the code looks    *)
(* into (an href) is a sequence of characters.                             *)
(***************************************************************************)
Null == << "null" >>

HrefInput == << "/", "i", "n", "p", "u", "t" >>
HrefReport == << "/", "r", "e", "p", "o", "r", "t" >>
HrefExternal == << "h", "t", "t", "p", "s", ":", "/", "/", "x", ".", "i", "o" >>
HrefRoot == << "/" >>

Hrefs == {Null, << >>, HrefInput, HrefReport, HrefExternal}

\* data-transition: absent, or one of these values
Transitions == { << FALSE, "" >>, << TRUE, "back" >>, << TRUE, "forward" >>,
                 << TRUE, "" >> }

Anchors ==
    {[tag |-> "a", hasTransition |-> t[1], transition |-> t[2], href |-> h] :
        t \in Transitions, h \in Hrefs}

Span == [tag |-> "span", hasTransition |-> FALSE, transition |-> "",
         href |-> Null]

TaggedDiv == [tag |-> "div", hasTransition |-> TRUE, transition |-> "back",
              href |-> Null]

Elements == Anchors \cup {Span, TaggedDiv}

\* elements clicked inside another one
Inner == {Span,
          [tag |-> "a", hasTransition |-> TRUE, transition |-> "forward",
           href |-> HrefReport]}

\* a click's target followed by its ancestors below the body
Paths == {<< e >> : e \in Elements}
         \cup {<< c, e >> : c \in Inner, e \in Elements}

NoElement == [tag |-> "", hasTransition |-> FALSE, transition |-> "",
              href |-> Null]

NoEvent == [n |-> 0, path |-> << >>, defaultPrevented |-> FALSE]

DELAY == 180

\* event.target.closest("a[data-transition]")
MatchesSelectorAnyAnchor(e) == e.tag = "a"

MatchesSelector(e) == e.tag = "a" /\ e.hasTransition

ClosestTargetOnly(path) ==
    IF MatchesSelector(path[1]) THEN path[1] ELSE NoElement

Closest(path) ==
    IF \E i \in 1..Len(path) : MatchesSelector(path[i])
    THEN path[Min({i \in 1..Len(path) : MatchesSelector(path[i])})]
    ELSE NoElement

StartsWith(s, prefix) ==
    /\ Len(s) >= Len(prefix)
    /\ SubSeq(s, 1, Len(prefix)) = prefix

\* if (!url || url.startsWith("http")) return;
LetThroughEmptyOnly(url) == url = Null \/ url = << >>

LetThrough(url) ==
    \/ url = Null \/ url = << >>
    \/ StartsWith(url, << "h", "t", "t", "p" >>)

\* if (type === "back") ... else ...
SlideClassSwapped(type) ==
    IF type = "back" THEN "page-slide-out-left" ELSE "page-slide-out-right"

SlideClass(type) ==
    IF type = "back" THEN "page-slide-out-right" ELSE "page-slide-out-left"

\* the click is one the listener handles to the end
Intercepted(path) ==
    /\ listening
    /\ Closest(path) # NoElement
    /\ ~LetThrough(Closest(path).href)

\* the browser's own handling of a click that was not prevented: the nearest
\* anchor with an href is followed (an empty href is the document's URL)
DefaultTarget(path, loc) ==
    LET idx == {i \in 1..Len(path) :
                  path[i].tag = "a" /\ path[i].href # Null}
    IN IF idx = {} THEN Null
       ELSE IF path[Min(idx)].href = << >> THEN loc
       ELSE path[Min(idx)].href

\* const shell = document.querySelector(".app-shell"); if (!shell) return;
RegistersUnguarded(shell) == TRUE

Registers(shell) == shell

\* document.addEventListener("DOMContentLoaded", ...)
DomContentLoaded ==
    /\ pagePc = "loading"
    /\ pagePc' = "ready"
    /\ listening' = Registers(hasShell)
    /\ UNCHANGED << hasShell, shellClasses, event, timers, location, navBy,
                    swVars >>

\* setTimeout(() => { window.location.href = url; }, 180)
SetTimeoutNow(queue, url) == Append(queue, [url |-> url, left |-> 0])

SetTimeoutDropped(queue, url) == queue

SetTimeoutReplace(queue, url) == << [url |-> url, left |-> DELAY] >>

SetTimeout(queue, url) == Append(queue, [url |-> url, left |-> DELAY])

\* shell.classList.add(name)
ClassListReplace(classes, name) == {name}

ClassListAdd(classes, name) == classes \cup {name}

\* a click reaches the body: the listener, when registered, then the
\* browser's default handling
Click ==
    /\ pagePc # "gone"
    /\ event.n < MaxClicks
    /\ \E path \in Paths :
         LET link == Closest(path)
             url == link.href
             type == link.transition
             prevented == Intercepted(path)
             target == DefaultTarget(path, location)
         IN /\ event' = [n |-> event.n + 1, path |-> path,
                         defaultPrevented |-> prevented]
            /\ shellClasses' = IF prevented
                               THEN ClassListAdd(shellClasses,
                                                 SlideClass(type))
                               ELSE shellClasses
            /\ timers' = IF prevented THEN SetTimeout(timers, url)
                         ELSE timers
            /\ IF ~prevented /\ target # Null
               THEN location' = target /\ navBy' = "default"
               ELSE UNCHANGED << location, navBy >>
    /\ UNCHANGED << pagePc, hasShell, listening, swVars >>

\* time passes
Tick ==
    /\ pagePc # "gone"
    /\ \E i \in 1..Len(timers) : timers[i].left > 0
    /\ timers' = [i \in 1..Len(timers) |->
                    [timers[i] EXCEPT !.left =
                       IF @ > TickStep THEN @ - TickStep ELSE 0]]
    /\ UNCHANGED << pagePc, hasShell, listening, shellClasses, event,
                    location, navBy, swVars >>

\* the oldest timer is due: window.location.href = url
TimerFire ==
    /\ pagePc # "gone"
    /\ timers # << >>
    /\ Head(timers).left = 0
    /\ location' = Head(timers).url
    /\ navBy' = "timer"
    /\ timers' = Tail(timers)
    /\ UNCHANGED << pagePc, hasShell, listening, shellClasses, event,
                    swVars >>

\* the navigation under way replaces the document: its timers are dropped
Unload ==
    /\ pagePc # "gone"
    /\ navBy # "load"
    /\ pagePc' = "gone"
    /\ timers' = << >>
    /\ listening' = FALSE
    /\ UNCHANGED << hasShell, shellClasses, event, location, navBy, swVars >>

(***************************************************************************)
(* Specifications.                                                         *)
(***************************************************************************)
\* every order of every set of stale caches
StaleOrders ==
    {<< >>} \cup {<< n >> : n \in StaleNames}
            \cup {p \in StaleNames \X StaleNames : p[1] # p[2]}

\* the worker is registered on an origin holding any stale caches; no
\* document of the application is open
InitSW ==
    /\ swState = "parsed"
    /\ swGen = 1
    /\ cacheOrder \in StaleOrders
    /\ cacheData = [n \in AllCacheNames |->
                      IF n \in Range(cacheOrder) THEN StaleEntries(n) ELSE {}]
    /\ installPc = "idle"
    /\ installNet = << >>
    /\ installResult = "none"
    /\ activatePc = "idle"
    /\ activateKeys = << >>
    /\ activatePending = {}
    /\ activateCalled = {}
    /\ activateResult = "none"
    /\ fe = IdleFetch
    /\ pagePc = "gone"
    /\ hasShell = FALSE
    /\ listening = FALSE
    /\ shellClasses = {}
    /\ event = NoEvent
    /\ timers = << >>
    /\ location = HrefRoot
    /\ navBy = "load"

\* a document is loading, with or without a shell element; the worker is
\* not registered
InitPage ==
    /\ swState = "redundant"
    /\ swGen = MaxGen
    /\ cacheOrder = << >>
    /\ cacheData = [n \in AllCacheNames |-> {}]
    /\ installPc = "idle"
    /\ installNet = << >>
    /\ installResult = "none"
    /\ activatePc = "idle"
    /\ activateKeys = << >>
    /\ activatePending = {}
    /\ activateCalled = {}
    /\ activateResult = "none"
    /\ fe = IdleFetch
    /\ pagePc = "loading"
    /\ hasShell \in BOOLEAN
    /\ listening = FALSE
    /\ shellClasses = {}
    /\ event = NoEvent
    /\ timers = << >>
    /\ location = HrefRoot
    /\ navBy = "load"

NextSW ==
    \/ Register
    \/ InstallDispatch
    \/ InstallOpen
    \/ InstallAddAll
    \/ InstallSettle
    \/ ActivateDispatch
    \/ ActivateKeys
    \/ ActivateDelete
    \/ ActivateSettle
    \/ FetchDispatch
    \/ FetchMatch
    \/ FetchNetwork
    \/ FetchComplete

NextPage ==
    \/ DomContentLoaded
    \/ Click
    \/ Tick
    \/ TimerFire
    \/ Unload

\* the cache worker alone
SpecSW == InitSW /\ [][NextSW]_vars

\* a document alone
SpecPage == InitPage /\ [][NextPage]_vars

\* a document whose event loop keeps running: time passes while a timer
\* waits, and a timer that is due has its callback run
SpecPageFair == SpecPage /\ WF_vars(Tick) /\ WF_vars(TimerFire)

(***************************************************************************)
(* Properties of the cache worker (checked under SpecSW).                  *)
(***************************************************************************)
\* some existing cache holds an entry for the URL
Cached(url) == \E n \in Range(cacheOrder) : url \in Keys(cacheData[n])

\* the step in which caches.match settles / fetch(event.request) settles
MatchStep == fe.pc = "match" /\ fe'.pc # "match"
NetworkStep == fe.pc = "network" /\ fe'.pc # "network"

C1_NonGet ==
    (fe.pc # "idle" /\ fe.method # "GET") =>
        /\ fe.pc = "done"
        /\ ~fe.respondWith
        /\ fe.lookups = 0
        /\ fe.netCalls = 0
        /\ fe.response = NoResponse

C1_Get ==
    (fe.pc = "done" /\ fe.method = "GET") =>
        /\ fe.respondWith
        /\ fe.lookups = 1
        /\ \/ fe.response.kind = "cached" /\ fe.netCalls = 0
           \/ fe.response.kind \in {"network", "error"} /\ fe.netCalls = 1

C1_Match ==
    MatchStep =>
        IF Cached(fe.url)
        THEN /\ fe'.pc = "done"
             /\ fe'.netCalls = 0
             /\ fe'.response.kind = "cached"
             /\ fe'.response.cache \in Range(cacheOrder)
             /\ [url |-> fe.url, gen |-> fe'.response.gen]
                   \in cacheData[fe'.response.cache]
        ELSE fe'.pc = "network" /\ fe'.response = NoResponse

C1_Network ==
    NetworkStep =>
        /\ fe'.pc = "done"
        /\ fe'.netCalls = 1
        /\ fe'.response.url = fe.url
        /\ fe'.response.kind =
              IF fe'.net = "net_error" THEN "error" ELSE "network"

\* C1: the fetch handler dispatches three ways.  A request that is not a GET
\* is not intercepted: respondWith is not called, no cache is looked up and
\* the handler fetches nothing.  A GET request that some cache holds an entry
\* for is answered with that entry and without a network call.  A GET request
\* no cache holds makes exactly one network call, whose result is the answer.
C1_FetchThreeWay ==
    /\ [](C1_NonGet /\ C1_Get)
    /\ [][C1_Match /\ C1_Network]_vars

\* a GET request was answered from a cache, without a network call
C1_Witness ==
    /\ fe.pc = "done"
    /\ fe.method = "GET"
    /\ fe.response.kind = "cached"
    /\ fe.netCalls = 0

\* every fetch of the bulk add ended in an ok response
AllFetchedOk ==
    \A i \in 1..Len(URLS_TO_CACHE) : installNet[URLS_TO_CACHE[i]] = "ok"

\* C2: install is all or nothing.  When every URL of the list was fetched
\* with an ok response, install succeeds and the cache named CACHE_NAME holds
\* an entry of this install for every URL of URLS_TO_CACHE.  When one fetch
\* failed, install fails, the worker is discarded and the cache holds no
\* entry of this install.
C2_InstallAllOrNothing ==
    installPc = "settled" =>
        IF AllFetchedOk
        THEN /\ installResult = "ok"
             /\ swState # "redundant"
             /\ CACHE_NAME \in Range(cacheOrder)
             /\ \A i \in 1..Len(URLS_TO_CACHE) :
                  [url |-> URLS_TO_CACHE[i], gen |-> swGen]
                     \in cacheData[CACHE_NAME]
        ELSE /\ installResult = "failed"
             /\ swState \in {"installing", "redundant"}
             /\ \A e \in cacheData[CACHE_NAME] : e.gen # swGen

\* an install failed on one fetch although other fetches of the batch were
\* answered, over a cache an earlier install had filled
C2_Witness ==
    /\ installPc = "settled"
    /\ installResult = "failed"
    /\ swState = "redundant"
    /\ \E u \in UrlSet : installNet[u] = "ok"
    /\ \E u \in UrlSet : installNet[u] = "http_error"
    /\ Keys(cacheData[CACHE_NAME]) = UrlSet

C3_Called ==
    activatePc \in {"deleting", "settled"} =>
        activateCalled = {k \in Range(activateKeys) : k # CACHE_NAME}

C3_Completed ==
    activateResult = "ok" =>
        /\ activatePending = {}
        /\ Range(cacheOrder) \subseteq {CACHE_NAME}

\* while activate runs, a cache disappears only if delete was called with its
\* name, and the cache named CACHE_NAME stays as it is
C3_Step ==
    (activatePc' # activatePc \/ activatePending' # activatePending) =>
        /\ (Range(cacheOrder) \ Range(cacheOrder')) \subseteq activateCalled'
        /\ CACHE_NAME \notin (Range(cacheOrder) \ Range(cacheOrder'))
        /\ cacheData'[CACHE_NAME] = cacheData[CACHE_NAME]
        /\ \A n \in Range(cacheOrder') : cacheData'[n] = cacheData[n]

\* C3: activate calls caches.delete with every cache name that differs from
\* CACHE_NAME and with no other; the cache named CACHE_NAME survives with its
\* entries; once every deletion is done the cache names are within
\* {CACHE_NAME}.
C3_ActivatePrunes ==
    /\ [](C3_Called /\ C3_Completed)
    /\ [][C3_Step]_vars

\* activate found the current cache and "old-cache", and left the current
\* cache alone, with its entries
C3_Witness ==
    /\ activateResult = "ok"
    /\ Range(activateKeys) = {CACHE_NAME, "old-cache"}
    /\ cacheOrder = << CACHE_NAME >>
    /\ Keys(cacheData[CACHE_NAME]) = UrlSet
    /\ cacheData["old-cache"] = {}

\* C8: lifecycle order.  The activate handler runs, and the worker is
\* installed, activated or handling a fetch, only when its install ended
\* well; a worker whose install failed never gets there.
C8_LifecycleOrder ==
    /\ (\/ swState \in {"installed", "activating", "activated"}
        \/ activatePc # "idle"
        \/ fe.pc # "idle")
         => (installPc = "settled" /\ installResult = "ok")
    /\ installResult = "failed" =>
         /\ swState \in {"installing", "redundant"}
         /\ activatePc = "idle"
         /\ activateCalled = {}
         /\ fe = IdleFetch

\* a worker whose install failed was discarded while stale caches remain
C8_Witness ==
    /\ installResult = "failed"
    /\ swState = "redundant"
    /\ activatePc = "idle"
    /\ Range(cacheOrder) \cap StaleNames # {}

KeysOK ==
    /\ CACHE_NAME \in Range(cacheOrder)
    /\ Keys(cacheData[CACHE_NAME]) = UrlSet
    /\ Cardinality(cacheData[CACHE_NAME]) = Len(URLS_TO_CACHE)

\* C9: the key set of the current cache is constant.  After a successful
\* install the cache named CACHE_NAME holds exactly the URLs of
\* URLS_TO_CACHE, and no later step changes that; a miss answered from the
\* network writes to no cache, and no step of activate or fetch changes an
\* entry of the current cache.
C9_KeySetConstant ==
    /\ [](installResult = "ok" => KeysOK)
    /\ [][KeysOK => KeysOK']_vars
    /\ [][NetworkStep => (cacheData' = cacheData /\ cacheOrder' = cacheOrder)]_vars
    /\ [][(fe' # fe \/ activatePc' # activatePc
                    \/ activatePending' # activatePending)
             => cacheData'[CACHE_NAME] = cacheData[CACHE_NAME]]_vars

\* a GET request for a URL outside the list was answered from the network
\* and the current cache still holds exactly the list
C9_Witness ==
    /\ fe.pc = "done"
    /\ fe.url = "/api/sales"
    /\ fe.response.kind = "network"
    /\ fe.net = "ok"
    /\ KeysOK

\* C10: on a GET miss whose network fetch fails, the failure is the answer:
\* one network call was made, no response stands in for it, the caches are
\* as before, and the event ends there.
C10_MissFailurePropagates ==
    /\ []((fe.pc = "done" /\ fe.net = "net_error") =>
            /\ fe.response.kind = "error"
            /\ fe.netCalls = 1
            /\ fe.lookups = 1)
    /\ [][(NetworkStep /\ fe'.net = "net_error") =>
            /\ fe'.pc = "done"
            /\ fe'.response.kind = "error"
            /\ fe'.netCalls = 1
            /\ cacheData' = cacheData
            /\ cacheOrder' = cacheOrder]_vars
    /\ [][(fe.pc = "done" /\ fe' # fe) => fe' = IdleFetch]_vars

\* a GET miss ended in a network error
C10_Witness ==
    /\ fe.pc = "done"
    /\ fe.method = "GET"
    /\ fe.net = "net_error"
    /\ fe.response.kind = "error"

(***************************************************************************)
(* Properties of the transition handler (checked under SpecPage).          *)
(***************************************************************************)
\* the step in which a click is dispatched
ClickStep == event'.n = event.n + 1

\* the click's path holds an anchor carrying data-transition
Tagged(e) == e.tag = "a" /\ e.hasTransition
HasTagged(path) == \E i \in 1..Len(path) : Tagged(path[i])

\* the nearest such anchor, from the target upwards
Nearest(path) ==
    path[CHOOSE i \in 1..Len(path) :
            Tagged(path[i]) /\ \A j \in 1..(i - 1) : ~Tagged(path[j])]

\* an href that is neither absent, nor empty, nor starts with "http"
IsLocal(href) ==
    /\ href # Null
    /\ href # << >>
    /\ ~(/\ Len(href) >= 4
         /\ href[1] = "h" /\ href[2] = "t" /\ href[3] = "t" /\ href[4] = "p")

\* the step in which the oldest timer's callback runs
TimerStep == pagePc' # "gone" /\ Len(timers') < Len(timers)

C4_Click ==
    (/\ ClickStep
     /\ listening
     /\ HasTagged(event'.path)
     /\ Nearest(event'.path).transition = "back"
     /\ IsLocal(Nearest(event'.path).href)) =>
        /\ event'.defaultPrevented
        /\ "page-slide-out-right" \in shellClasses'
        /\ location' = location
        /\ navBy' = navBy
        /\ timers' = Append(timers, [url |-> Nearest(event'.path).href,
                                     left |-> 180])

C4_Timer ==
    /\ TimerStep =>
         /\ Head(timers).left = 0
         /\ location' = Head(timers).url
         /\ navBy' = "timer"
    /\ (navBy' = "timer" /\ << location, navBy >>' # << location, navBy >>) =>
         TimerStep

\* C4: with the listener registered, a click whose nearest tagged anchor has
\* data-transition "back" and an href that is not empty and does not start
\* with "http" has its default prevented and adds page-slide-out-right to
\* the shell; the click itself leaves the location alone and starts a timer
\* of 180 ms for that href; the location is set by a timer only when that
\* timer is due, and to the href the timer was started with.
C4_BackClick ==
    /\ [][C4_Click]_vars
    /\ [][C4_Timer]_vars
    /\ [](\A i \in 1..Len(timers) : timers[i].left <= 180)

\* the timer of a single "back" click on /input fired and set the location
C4_Witness ==
    /\ event.n = 1
    /\ event.defaultPrevented
    /\ HasTagged(event.path)
    /\ Nearest(event.path).transition = "back"
    /\ Nearest(event.path).href = HrefInput
    /\ shellClasses = {"page-slide-out-right"}
    /\ timers = << >>
    /\ navBy = "timer"
    /\ location = HrefInput

\* C5: with the listener registered, a click whose nearest tagged anchor has
\* any data-transition other than "back" and an href that is not empty and
\* does not start with "http" adds page-slide-out-left to the shell, and adds
\* no other class.
C5_ForwardClick ==
    [][(/\ ClickStep
        /\ listening
        /\ HasTagged(event'.path)
        /\ Nearest(event'.path).transition # "back"
        /\ IsLocal(Nearest(event'.path).href)) =>
           /\ "page-slide-out-left" \in shellClasses'
           /\ (shellClasses' \ shellClasses) \subseteq {"page-slide-out-left"}
           /\ event'.defaultPrevented]_vars

\* a click on an anchor with an empty data-transition slid the shell left
C5_Witness ==
    /\ event.n = 1
    /\ event.defaultPrevented
    /\ HasTagged(event.path)
    /\ Nearest(event.path).transition = ""
    /\ IsLocal(Nearest(event.path).href)
    /\ shellClasses = {"page-slide-out-left"}

\* C6: a click with no anchor carrying data-transition at or above its target
\* changes nothing: no class is added, the default is not prevented and no
\* timer is started.
C6_UntaggedClick ==
    [][(ClickStep /\ ~HasTagged(event'.path)) =>
          /\ shellClasses' = shellClasses
          /\ ~event'.defaultPrevented
          /\ timers' = timers]_vars

\* with the listener registered, a span inside an anchor without
\* data-transition was clicked and the browser followed the anchor
C6_Witness ==
    /\ listening
    /\ event.n = 1
    /\ Len(event.path) = 2
    /\ event.path[2].tag = "a"
    /\ event.path[2].href = HrefInput
    /\ ~HasTagged(event.path)
    /\ ~event.defaultPrevented
    /\ navBy = "default"
    /\ location = HrefInput

\* C7: a click whose nearest tagged anchor has no href, an empty href or an
\* href starting with "http" adds no class, does not prevent the default and
\* starts no timer, whatever the data-transition value.
C7_ExternalClick ==
    [][(/\ ClickStep
        /\ HasTagged(event'.path)
        /\ ~IsLocal(Nearest(event'.path).href)) =>
           /\ shellClasses' = shellClasses
           /\ ~event'.defaultPrevented
           /\ timers' = timers]_vars

\* with the listener registered, a "back" anchor leading to another site was
\* clicked and the browser followed it
C7_Witness ==
    /\ listening
    /\ event.n = 1
    /\ HasTagged(event.path)
    /\ Nearest(event.path).transition = "back"
    /\ Nearest(event.path).href = HrefExternal
    /\ ~event.defaultPrevented
    /\ shellClasses = {}
    /\ navBy = "default"
    /\ location = HrefExternal

(***************************************************************************)
(* Which cache answers (checked under SpecSW).                             *)
(***************************************************************************)
\* C11: every cached response the fetch handler serves comes from the cache
\* named CACHE_NAME, also while a stale cache still exists.
C11_ServedFromCurrent ==
    fe.response.kind = "cached" => fe.response.cache = CACHE_NAME

(***************************************************************************)
(* Overlapping clicks and the life of a timer (checked under SpecPageFair).*)
(***************************************************************************)
LocalHrefs == {HrefInput, HrefReport}

TimerUrls(queue) == [i \in 1..Len(queue) |-> queue[i].url]

\* two timers are pending, the older for u1 and the next for u2
Overlap(u1, u2) ==
    /\ Len(timers) >= 2
    /\ timers[1].url = u1
    /\ timers[2].url = u2

\* a timer has just set the location to u
FiredTo(u) == navBy = "timer" /\ location = u

\* a click the listener handles while a timer is pending is handled in full
\* and its timer is queued behind the pending ones, which stay as they are
C12_SecondClick ==
    (/\ ClickStep
     /\ timers # << >>
     /\ listening
     /\ HasTagged(event'.path)
     /\ IsLocal(Nearest(event'.path).href)) =>
        /\ event'.defaultPrevented
        /\ (IF Nearest(event'.path).transition = "back"
            THEN "page-slide-out-right" ELSE "page-slide-out-left")
              \in shellClasses'
        /\ timers' = Append(timers, [url |-> Nearest(event'.path).href,
                                     left |-> 180])

\* while the document lives, the pending timers change only by one being
\* queued or by the oldest firing, which sets the location to its own href
C12_NotCancelled ==
    pagePc' # "gone" =>
        \/ TimerUrls(timers') = TimerUrls(timers)
        \/ /\ Len(timers') = Len(timers) + 1
           /\ SubSeq(TimerUrls(timers'), 1, Len(timers)) = TimerUrls(timers)
        \/ /\ timers # << >>
           /\ timers' = Tail(timers)
           /\ location' = Head(timers).url
           /\ navBy' = "timer"

\* C12 as claimed: a second intercepted click while a timer is pending is
\* handled in full, the first timer is neither cancelled nor replaced, and
\* both timers eventually fire, each setting the location to its own href.
C12_BothFire ==
    /\ [][C12_SecondClick /\ C12_NotCancelled]_vars
    /\ \A u1 \in LocalHrefs, u2 \in LocalHrefs :
         /\ Overlap(u1, u2) ~>
              (FiredTo(u1) /\ timers # << >> /\ Head(timers).url = u2)
         /\ Overlap(u1, u2) ~> FiredTo(u2)

\* C12, amended: a second intercepted click while a timer is pending is
\* handled in full and the first timer is neither cancelled nor replaced;
\* each of the two timers fires, setting the location to its own href,
\* unless the document is unloaded first.
C12_BothFireOrUnload ==
    /\ [][C12_SecondClick /\ C12_NotCancelled]_vars
    /\ \A u1 \in LocalHrefs, u2 \in LocalHrefs :
         /\ Overlap(u1, u2) ~>
              \/ FiredTo(u1) /\ timers # << >> /\ Head(timers).url = u2
              \/ pagePc = "gone"
         /\ Overlap(u1, u2) ~> (FiredTo(u2) \/ pagePc = "gone")

\* two clicks overlapped (a "back" click on /input, then a click on /report)
\* and both timers have fired, the second one last
C12_Witness ==
    /\ event.n = 2
    /\ pagePc = "ready"
    /\ shellClasses = {"page-slide-out-right", "page-slide-out-left"}
    /\ timers = << >>
    /\ navBy = "timer"
    /\ location = HrefReport
    /\ event.defaultPrevented
    /\ Nearest(event.path).href = HrefReport

\* a timer for u is pending
Pending(u) == \E i \in 1..Len(timers) : timers[i].url = u

\* an intercepted click leaves a timer pending for the href it read
C13_Started ==
    (ClickStep /\ event'.defaultPrevented) =>
        /\ HasTagged(event'.path)
        /\ timers' # << >>
        /\ timers'[Len(timers')].url = Nearest(event'.path).href
        /\ timers'[Len(timers')].left = 180

\* a pending timer leaves only by firing or with its document
C13_NeverCancelled ==
    Len(timers') < Len(timers) =>
        \/ pagePc' = "gone"
        \/ /\ timers' = Tail(timers)
           /\ location' = Head(timers).url
           /\ navBy' = "timer"

\* C13 as claimed: every intercepted click is eventually followed by the
\* location being set to the href read at that click; nothing that happens
\* later keeps its timer from firing.
C13_EventuallyNavigates ==
    /\ [][C13_Started]_vars
    /\ \A u \in LocalHrefs : Pending(u) ~> FiredTo(u)

\* C13, amended: every intercepted click is eventually followed by the
\* location being set to the href read at that click, unless the document is
\* unloaded first; the handler never cancels a timer, which leaves only by
\* firing or with its document.
C13_NavigatesOrUnload ==
    /\ [][C13_Started /\ C13_NeverCancelled]_vars
    /\ \A u \in LocalHrefs : Pending(u) ~> (FiredTo(u) \/ pagePc = "gone")

\* the timer of a single "forward" click on /report fired
C13_Witness ==
    /\ event.n = 1
    /\ event.defaultPrevented
    /\ Nearest(event.path).transition = "forward"
    /\ Nearest(event.path).href = HrefReport
    /\ pagePc = "ready"
    /\ timers = << >>
    /\ FiredTo(HrefReport)

(***************************************************************************)
(* Event lifetimes of the worker (checked under SpecSW).                   *)
(***************************************************************************)
\* the install event is over only when open and addAll have settled
C14_Install ==
    swState \in {"installed", "activating", "activated", "redundant"} =>
        (installPc = "settled" /\ installResult # "none")

\* the activate event is over only when keys() and every delete have settled
C14_Activate ==
    swState = "activated" =>
        (activatePc = "settled" /\ activatePending = {})

\* the fetch event is over only when match, and fetch on a miss, have settled
C14_Fetch ==
    (fe # IdleFetch /\ fe' = IdleFetch) =>
        /\ fe.pc = "done"
        /\ fe.respondWith =>
             /\ fe.lookups = 1
             /\ (fe.response.kind = "cached" \/ fe.netCalls = 1)

\* C14: each lifecycle event of the worker stays alive until its asynchronous
\* work has settled: install until open and addAll have, activate until the
\* enumeration and every deletion have, fetch until match (and the network
\* fetch on a miss) has.
C14_EventsOutliveWork ==
    /\ [](C14_Install /\ C14_Activate)
    /\ [][C14_Fetch]_vars

(***************************************************************************)
(* The shell element (checked under SpecPage).                             *)
(***************************************************************************)
\* C15: when the document has no shell element as DOMContentLoaded fires,
\* the click listener is never registered: no click, whatever its target,
\* has its default prevented, adds a class or starts a timer, and no timer
\* ever sets the location.
C15_NoShellNoListener ==
    ~hasShell =>
        /\ ~listening
        /\ ~event.defaultPrevented
        /\ shellClasses = {}
        /\ timers = << >>
        /\ navBy # "timer"

\* in a document without a shell, after DOMContentLoaded, a "back" anchor
\* with a local href was clicked and the browser followed it
C15_Witness ==
    /\ ~hasShell
    /\ pagePc = "ready"
    /\ event.n = 1
    /\ HasTagged(event.path)
    /\ Nearest(event.path).transition = "back"
    /\ Nearest(event.path).href = HrefReport
    /\ ~event.defaultPrevented
    /\ navBy = "default"
    /\ location = HrefReport

SlideClasses == {"page-slide-out-right", "page-slide-out-left"}

\* an intercepted click on top of the other click's class leaves both
C16_Both ==
    (/\ ClickStep
     /\ event'.defaultPrevented
     /\ HasTagged(event'.path)) =>
        IF Nearest(event'.path).transition = "back"
        THEN shellClasses' = shellClasses \cup {"page-slide-out-right"}
        ELSE shellClasses' = shellClasses \cup {"page-slide-out-left"}

\* C16: the handler only ever adds the two slide classes to the shell and
\* removes none: the class set never shrinks, and after an intercepted "back"
\* click and an intercepted other click in the same document the shell has
\* both classes.
C16_ClassesOnlyGrow ==
    /\ [](shellClasses \subseteq SlideClasses)
    /\ [][shellClasses \subseteq shellClasses']_vars
    /\ [][C16_Both]_vars
    /\ [][(ClickStep /\ event'.defaultPrevented /\ shellClasses # {}
             /\ shellClasses' # shellClasses) =>
            shellClasses' = SlideClasses]_vars

\* a "forward" click, then a "back" click: the shell has both classes
C16_Witness ==
    /\ event.n = 2
    /\ event.defaultPrevented
    /\ Nearest(event.path).transition = "back"
    /\ Len(timers) = 2
    /\ shellClasses = SlideClasses

=============================================================================
